---- MODULE Spec2Model ----
(***************************************************************************)
(* Model of the article pipeline of app.py: deduplicate_articles,          *)
(* handle_search with its strategies and ranking, the provider adapters    *)
(* and the fan-out of search_all_sources over its worker threads.          *)
(*                                                                         *)
(* Strings are sequences of one-character strings, so that lower(),        *)
(* strip(), len() and the `in` substring test are computed, not assumed.   *)
(***************************************************************************)
EXTENDS Integers, Sequences, FiniteSets, TLC

VARIABLES
    articles,            \* deduplicate_articles: the input list scanned so far
    saved_articles_ids,  \* deduplicate_articles: the already-saved id set
    seen_titles,         \* deduplicate_articles: local set
    seen_urls,           \* deduplicate_articles: local set
    seen_ids,            \* deduplicate_articles: local set
    unique_articles,     \* the list deduplicate_articles returns, and the
                         \* local of handle_search that receives it
    pc,                  \* handle_search: position in the handler
    strategies,          \* handle_search: the search strategies
    strategy_index,      \* handle_search: the strategy the loop is at
    saved_ids,           \* handle_search: ids of the articles saved on Drive
    all_found_articles,  \* handle_search: the merged results of the fan-outs
    response,            \* handle_search: the response returned
    query_text,          \* handle_search: the stripped queryText
    ai_call,             \* handle_search: how get_ai_search_strategies ended
    fanouts,             \* handle_search: the calls of search_all_sources
    adapter,             \* provider adapter: the search_* function called
    adapter_pc,          \* provider adapter: position in the function
    endpoint,            \* provider adapter: the request it is at
    exchanges,           \* provider adapter: the requests made and their outcomes
    adapter_result,      \* provider adapter: how the call ended
    api_key,             \* provider adapter: WOS_API_KEY / CORE_API_KEY is set
    min_year,            \* provider adapter: parameter
    min_citations,       \* provider adapter: parameter
    items,               \* provider adapter: the items of the parsed response
    selected_sources,    \* search_all_sources: parameter
    completion,          \* the futures that finished, in the order of finishing
    snapshot,            \* as_completed: the futures finished when it was called
    future_to_source,    \* search_all_sources: the submitted tasks
    collected,           \* search_all_sources: the futures as_completed yielded
    all_articles,        \* search_all_sources: local list
    timed_out,           \* search_all_sources: as_completed raised TimeoutError
    fan_pc,              \* search_all_sources: position in the function
    fan_result,          \* search_all_sources: how the call ended
    drive_file,          \* the content of the saved-articles file on Drive
    handlers             \* the requests that save articles: their locals

dedupVars == <<articles, saved_articles_ids, seen_titles, seen_urls, seen_ids>>

searchVars == <<pc, strategies, strategy_index, saved_ids, all_found_articles,
                response, query_text, ai_call, fanouts>>

adapterVars == <<adapter, adapter_pc, endpoint, exchanges, adapter_result,
                 api_key, min_year, min_citations, items>>

fanVars == <<selected_sources, future_to_source, completion, snapshot,
             collected, all_articles, timed_out, fan_pc, fan_result>>

saveVars == <<drive_file, handlers>>

vars == <<dedupVars, unique_articles, searchVars, adapterVars, fanVars, saveVars>>

-----------------------------------------------------------------------------
(* Bounds *)

MaxArticles == 3     \* longest input list of deduplicate_articles

MaxFound == 3        \* most articles the fan-outs of one request return

MaxItems == 2        \* most items in one provider response
MaxSelected == 2     \* most names in the sources list of one request

CurrentYear == 2026  \* datetime.datetime.now().year during the request

-----------------------------------------------------------------------------
(* Python str operations *)

\* str.lower(), on ASCII letters
LowerTable ==
    ("A" :> "a") @@ ("B" :> "b") @@ ("C" :> "c") @@ ("D" :> "d") @@ ("E" :>
    "e") @@ ("F" :> "f") @@ ("G" :> "g") @@ ("H" :> "h") @@ ("I" :> "i") @@
    ("J" :> "j") @@ ("K" :> "k") @@ ("L" :> "l") @@ ("M" :> "m") @@ ("N" :>
    "n") @@ ("O" :> "o") @@ ("P" :> "p") @@ ("Q" :> "q") @@ ("R" :> "r") @@
    ("S" :> "s") @@ ("T" :> "t") @@ ("U" :> "u") @@ ("V" :> "v") @@ ("W" :>
    "w") @@ ("X" :> "x") @@ ("Y" :> "y") @@ ("Z" :> "z")

LowerChar(c) == IF c \in DOMAIN LowerTable THEN LowerTable[c] ELSE c

Lower(s) == [i \in 1..Len(s) |-> LowerChar(s[i])]

IsSpace(c) == c \in {" ", "\t", "\n"}

RECURSIVE LStrip(_)
LStrip(s) == IF s # <<>> /\ IsSpace(Head(s)) THEN LStrip(Tail(s)) ELSE s

RECURSIVE RStrip(_)
RStrip(s) ==
    IF s # <<>> /\ IsSpace(s[Len(s)]) THEN RStrip(SubSeq(s, 1, Len(s) - 1)) ELSE s

\* str.strip()
Strip(s) == RStrip(LStrip(s))

\* the Python test `a in b` on strings
IsSubstring(a, b) ==
    \E k \in 0..(Len(b) - Len(a)) : SubSeq(b, k + 1, k + Len(a)) = a

\* dict.get(key, default) on a dict modelled as a record
Get(dict, key, default) == IF key \in DOMAIN dict THEN dict[key] ELSE default

\* the value of dict.get(key) for an absent key
None == <<"<None>">>

-----------------------------------------------------------------------------
(* Articles fed to deduplicate_articles *)

TitleEmpty == <<>>

TitleBlank == <<" ">>

\* "Deep Learning for X:", exactly 20 characters
TitleShort ==
    <<"D", "e", "e", "p", " ", "L", "e", "a", "r", "n", "i", "n", "g", " ", "f", "o", "r", " ", "X", ":">>

\* " DEEP LEARNING FOR X: ", equal to TitleShort after lower().strip()
TitleShortVariant ==
    <<" ", "D", "E", "E", "P", " ", "L", "E", "A", "R", "N", "I", "N", "G", " ", "F", "O", "R", " ", "X", ":", " ">>

\* "Deep Learning for X: A Survey of Methods", 40 characters
TitleLong ==
    <<"D", "e", "e", "p", " ", "L", "e", "a", "r", "n", "i", "n", "g", " ", "f", "o", "r", " ", "X", ":", " ", "A", " ", "S", "u", "r", "v", "e", "y", " ", "o", "f", " ", "M", "e", "t", "h", "o", "d", "s">>

\* "Deep Learning for X: A Survey of Methods (Preprint)"
TitlePreprint ==
    <<"D", "e", "e", "p", " ", "L", "e", "a", "r", "n", "i", "n", "g", " ", "f", "o", "r", " ", "X", ":", " ", "A", " ", "S", "u", "r", "v", "e", "y", " ", "o", "f", " ", "M", "e", "t", "h", "o", "d", "s", " ", "(", "P", "r", "e", "p", "r", "i", "n", "t", ")">>

Titles == {TitleBlank, TitleShort, TitleShortVariant, TitleLong, TitlePreprint}

Urls == {<<"u">>, <<"v">>}

Ids == {<<>>, <<"a">>}

SavedIdSets == {{}, {<<"a">>}}

Article(id, title, url) == [id |-> id, title |-> title, url |-> url]

\* every combination of the plain values, and the odd field values once each:
\* an absent id, an id and a url that need trimming, an empty title, a blank url
ArticlePool ==
    {Article(i, t, u) : i \in Ids, t \in Titles, u \in Urls}
    \cup {[title |-> TitleLong, url |-> <<"v">>],
          Article(<<" ", "a">>, TitleShort, <<"u", " ">>),
          Article(<<"a">>, TitleEmpty, <<"u">>),
          Article(<<"a">>, TitleLong, <<" ">>)}

-----------------------------------------------------------------------------
(* deduplicate_articles *)

TitleThreshold == 20

\* the normalised fields of lines 979-981
NormTitle(article) == Strip(Lower(Get(article, "title", <<>>)))

NormUrl(article) == Strip(Get(article, "url", <<>>))

NormId(article) == Strip(Get(article, "id", <<>>))

\* IsDuplicate without the two containment tests of lines 987-988
IsDuplicate_ExactTitleOnly(title, url, article_id, titles, urls, ids) ==
    \/ \E seen_title \in titles :
          title # <<>> /\ seen_title # <<>> /\ title = seen_title
    \/ url # <<>> /\ url \in urls
    \/ article_id # <<>> /\ article_id \in ids

\* IsDuplicate without the id test of line 995
IsDuplicate_NoIdTest(title, url, article_id, titles, urls, ids) ==
    \/ \E seen_title \in titles :
          /\ title # <<>>
          /\ seen_title # <<>>
          /\ \/ title = seen_title
             \/ /\ Len(title) > 20
                /\ Len(seen_title) > 20
                /\ \/ IsSubstring(title, seen_title)
                   \/ IsSubstring(seen_title, title)
    \/ url # <<>> /\ url \in urls

\* lines 983-997: the scan of seen_titles, then the url / id test
IsDuplicate(title, url, article_id, titles, urls, ids) ==
    \/ \E seen_title \in titles :
          /\ title # <<>>
          /\ seen_title # <<>>
          /\ \/ title = seen_title
             \/ /\ Len(title) > TitleThreshold
                /\ Len(seen_title) > TitleThreshold
                /\ IsSubstring(title, seen_title)
             \/ /\ Len(title) > TitleThreshold
                /\ Len(seen_title) > TitleThreshold
                /\ IsSubstring(seen_title, title)
    \/ url # <<>> /\ url \in urls
    \/ article_id # <<>> /\ article_id \in ids

\* IsSaved looking up the url instead of the id
IsSaved_ByUrl(article, saved) == Get(article, "url", None) \in saved

\* line 976: the test against the saved ids, on the id as stored (None when
\* the key is absent)
IsSaved(article, saved) == Get(article, "id", None) \in saved

\* IsKept without the `and url` of line 999
IsKept_NoUrlRequired(article, saved, titles, urls, ids) ==
    /\ ~IsSaved(article, saved)
    /\ ~IsDuplicate(NormTitle(article), NormUrl(article), NormId(article),
                    titles, urls, ids)
    /\ NormTitle(article) # <<>>

\* line 999: kept only with a title and a url
IsKept(article, saved, titles, urls, ids) ==
    /\ ~IsSaved(article, saved)
    /\ ~IsDuplicate(NormTitle(article), NormUrl(article), NormId(article),
                    titles, urls, ids)
    /\ NormTitle(article) # <<>>
    /\ NormUrl(article) # <<>>

\* DedupBody inserting at the front of unique_articles
DedupBody_Prepend(st, article, saved) ==
    IF IsKept(article, saved, st.seen_titles, st.seen_urls, st.seen_ids)
    THEN [seen_titles |-> st.seen_titles \cup {NormTitle(article)},
          seen_urls |-> st.seen_urls \cup {NormUrl(article)},
          seen_ids |-> IF NormId(article) # <<>>
                       THEN st.seen_ids \cup {NormId(article)}
                       ELSE st.seen_ids,
          unique_articles |-> <<article>> \o st.unique_articles]
    ELSE st

\* DedupBody storing the article with its normalised title
DedupBody_StoresNormalised(st, article, saved) ==
    IF IsKept(article, saved, st.seen_titles, st.seen_urls, st.seen_ids)
    THEN [seen_titles |-> st.seen_titles \cup {NormTitle(article)},
          seen_urls |-> st.seen_urls \cup {NormUrl(article)},
          seen_ids |-> IF NormId(article) # <<>>
                       THEN st.seen_ids \cup {NormId(article)}
                       ELSE st.seen_ids,
          unique_articles |->
              Append(st.unique_articles,
                     [article EXCEPT !.title = NormTitle(article)])]
    ELSE st

\* one iteration of the loop of lines 975-1005 on the local state st
DedupBody(st, article, saved) ==
    IF IsKept(article, saved, st.seen_titles, st.seen_urls, st.seen_ids)
    THEN [seen_titles |-> st.seen_titles \cup {NormTitle(article)},
          seen_urls |-> st.seen_urls \cup {NormUrl(article)},
          seen_ids |-> IF NormId(article) # <<>>
                       THEN st.seen_ids \cup {NormId(article)}
                       ELSE st.seen_ids,
          unique_articles |-> Append(st.unique_articles, article)]
    ELSE st

\* lines 970-973
DedupStart ==
    [seen_titles |-> {}, seen_urls |-> {}, seen_ids |-> {},
     unique_articles |-> <<>>]

RECURSIVE DedupLoop(_, _, _)
DedupLoop(st, list, saved) ==
    IF list = <<>> THEN st
    ELSE DedupLoop(DedupBody(st, Head(list), saved), Tail(list), saved)

\* deduplicate_articles(articles, saved_articles_ids)
deduplicate_articles(list, saved) ==
    DedupLoop(DedupStart, list, saved).unique_articles

\* handle_search is not running
NoResponse == [status |-> 0]

SearchIdle ==
    /\ pc = "idle"
    /\ strategies = <<>>
    /\ strategy_index = 0
    /\ saved_ids = {}
    /\ all_found_articles = <<>>
    /\ response = NoResponse
    /\ query_text = <<>>
    /\ ai_call = "none"
    /\ fanouts = <<>>

\* no provider adapter is running
NoResult == [status |-> "none", articles |-> <<>>]

AdapterIdle ==
    /\ adapter = "none"
    /\ adapter_pc = "idle"
    /\ endpoint = 0
    /\ exchanges = <<>>
    /\ adapter_result = NoResult
    /\ api_key = FALSE
    /\ min_year = 0
    /\ min_citations = 0
    /\ items = <<>>

\* search_all_sources is not running
FanIdle ==
    /\ selected_sources = <<>>
    /\ future_to_source = <<>>
    /\ completion = <<>>
    /\ snapshot = {}
    /\ collected = <<>>
    /\ all_articles = <<>>
    /\ timed_out = FALSE
    /\ fan_pc = "idle"
    /\ fan_result = NoResult

\* the two request threads that can save articles at the same time
Requesters == {1, 2}

IdleHandler ==
    [route |-> "none", pc |-> "idle", loaded |-> TRUE, saved_articles |-> <<>>,
     processed |-> <<>>, wrote |-> FALSE, status |-> "none"]

\* no request that saves articles is under way
SaveIdle ==
    /\ drive_file = <<>>
    /\ handlers = [r \in Requesters |-> IdleHandler]

\* The scan as a state machine: each step reads the next article of the input.
DedupInit ==
    /\ articles = <<>>
    /\ saved_articles_ids \in SavedIdSets
    /\ seen_titles = {}
    /\ seen_urls = {}
    /\ seen_ids = {}
    /\ unique_articles = <<>>
    /\ SearchIdle
    /\ AdapterIdle
    /\ FanIdle
    /\ SaveIdle

DedupScan(article) ==
    LET st == DedupBody([seen_titles |-> seen_titles, seen_urls |-> seen_urls,
                         seen_ids |-> seen_ids,
                         unique_articles |-> unique_articles],
                        article, saved_articles_ids)
    IN /\ Len(articles) < MaxArticles
       /\ articles' = Append(articles, article)
       /\ seen_titles' = st.seen_titles
       /\ seen_urls' = st.seen_urls
       /\ seen_ids' = st.seen_ids
       /\ unique_articles' = st.unique_articles
       /\ UNCHANGED <<saved_articles_ids, searchVars, adapterVars, fanVars, saveVars>>

DedupNext == \E article \in ArticlePool : DedupScan(article)

SpecDedup == DedupInit /\ [][DedupNext]_vars

-----------------------------------------------------------------------------
(* handle_search: strategies, fan-out, deduplication, ranking *)

Strategy(query, rationale, topic) ==
    [query |-> query, rationale |-> rationale, topic |-> topic]

\* lines 889 and 1214: the single strategy of a direct search; "d" stands for
\* 'Busca direta.' and "D" for 'Busca Direta'
DirectStrategies(query) == <<Strategy(query, <<"d">>, <<"D">>)>>

\* lines 915, 922 and 925: the single strategy returned when the AI failed;
\* "f" stands for 'Falha na IA.'
FallbackStrategies(query) == <<Strategy(query, <<"f">>, <<"D">>)>>

\* a list get_ai_search_strategies may return: two queries and, between them,
\* an entry whose query is blank
AiStrategies ==
    <<Strategy(<<"q", "1">>, <<"r", "1">>, <<"t", "1">>),
      Strategy(<<" ">>, <<"r", "0">>, <<"t", "0">>),
      Strategy(<<"q", "2">>, <<"r", "2">>, <<"t", "2">>)>>

\* a list of the AI whose entries have no query worth a search
BlankStrategies ==
    <<Strategy(<<>>, <<"r", "3">>, <<"t", "3">>),
      Strategy(<<" ">>, <<"r", "4">>, <<"t", "4">>)>>

\* the lists json.loads may decode from the response of the AI
AiLists == {AiStrategies, BlankStrategies, <<>>}

\* How the call of the AI ends: generate_content raises, the text is not
\* JSON, the JSON is not a list, or it is a list.
AiResponses ==
    {[kind |-> k, data |-> <<>>] : k \in {"error", "unparsable", "not_list"}}
        \cup {[kind |-> "list", data |-> l] : l \in AiLists}

\* a strategy expander that answers an exception of the AI with no strategy
get_ai_search_strategies_EmptyOnError(research_question, has_key, ai) ==
    IF ~has_key THEN DirectStrategies(research_question)
    ELSE CASE ai.kind = "error" -> <<>>
           [] ai.kind = "unparsable" -> FallbackStrategies(research_question)
           [] ai.kind = "not_list" -> FallbackStrategies(research_question)
           [] ai.kind = "list" -> ai.data

\* lines 885-928
get_ai_search_strategies(research_question, has_key, ai) ==
    IF ~has_key THEN DirectStrategies(research_question)
    ELSE CASE ai.kind = "error" -> FallbackStrategies(research_question)
           [] ai.kind = "unparsable" -> FallbackStrategies(research_question)
           [] ai.kind = "not_list" -> FallbackStrategies(research_question)
           [] ai.kind = "list" -> ai.data

\* request.json: nothing, or a dict with queryText and searchType
NoData == [empty |-> TRUE, queryText |-> <<>>, searchType |-> "direct"]

QueryTexts == {<<" ">>, <<" ", "q">>}

Requests ==
    {NoData} \cup {[empty |-> FALSE, queryText |-> q, searchType |-> t] :
                      q \in QueryTexts, t \in {"direct", "ia"}}

\* an article as a provider adapter builds it; year is an offset from the
\* current year, citations a count
Found(id, title, url, source, age, citations) ==
    [id |-> id, title |-> title, url |-> url, source |-> source,
     year |-> CurrentYear - age, citations |-> citations]

\* what the providers can answer: a paper indexed by two providers under the
\* same title, and papers of several ages and citation counts
FoundPool ==
    {Found(<<"s", "s", "_", "1">>, <<"t", "1">>, <<"u", "1">>, "Semantic Scholar", 0, 10),
     Found(<<"c", "r", "_", "1">>, <<"T", "1">>, <<"u", "1", "c">>, "CrossRef", 3, 20),
     Found(<<"s", "s", "_", "2">>, <<"t", "2">>, <<"u", "2">>, "Semantic Scholar", 10, 20),
     Found(<<"o", "a", "_", "3">>, <<"t", "3">>, <<"u", "3">>, "OpenAlex", 12, 20),
     Found(<<"a", "r", "x", "i", "v", "_", "4">>, <<"t", "4">>, <<"u", "4">>, "arXiv", -1, 10),
     Found(<<"p", "m", "_", "5">>, <<"t", "5">>, <<"u", "5">>, "PubMed", 10, 0),
     Found(<<"c", "r", "_", "6">>, <<"t", "6">>, <<"u", "6">>, "CrossRef", 3, 10)}

\* line 1223: the ids of the articles saved on Drive
SavedIdChoices == {{}, {<<"s", "s", "_", "2">>, <<>>}}

SeqsUpTo(S, n) == UNION {[1..k -> S] : k \in 0..n}

\* a stamp that takes the rationale and the topic of the first strategy
Stamp_FirstStrategy(article, strategy) ==
    [topic |-> Get(strategies[1], "rationale", <<"B", "u", "s", "c", "a">>),
     search_strategy |-> Get(strategies[1], "topic", <<"G", "e", "r", "a", "l">>)]
        @@ article

\* lines 1242-1244: the rationale goes to 'topic', the topic to
\* 'search_strategy'
Stamp(article, strategy) ==
    [topic |-> Get(strategy, "rationale", <<"B", "u", "s", "c", "a">>),
     search_strategy |-> Get(strategy, "topic", <<"G", "e", "r", "a", "l">>)]
        @@ article

Max(a, b) == IF a >= b THEN a ELSE b

\* Scores and factors are counted in twentieths: 0.05 is one unit, 1.0 is
\* twenty, 0.5 is ten.
ScoreUnit == 20

\* RecencyFactor without the floor of 0.5
RecencyFactor_NoFloor(age) == ScoreUnit - age

\* line 1255: max(0.5, 1.0 - age * 0.05)
RecencyFactor(age) == Max(ScoreUnit \div 2, ScoreUnit - age)

\* lines 1252-1256
RelevanceScore(article, current_year) ==
    Get(article, "citations", 0)
        * RecencyFactor(current_year - Get(article, "year", current_year))

\* a ranking that leaves out the articles whose score is zero
Ranked_DropsUnscored(list, current_year) ==
    SelectSeq([i \in 1..Len(list) |->
                  [relevance_score |-> RelevanceScore(list[i], current_year)]
                      @@ list[i]],
              LAMBDA a : a.relevance_score > 0)

\* lines 1251-1256 over the whole list
Ranked(list, current_year) ==
    [i \in 1..Len(list) |->
        [relevance_score |-> RelevanceScore(list[i], current_year)] @@ list[i]]

\* inserts a after the entries whose score is at least its own
RECURSIVE InsertDescending(_, _)
InsertDescending(sorted, a) ==
    IF sorted = <<>> THEN <<a>>
    ELSE IF Head(sorted).relevance_score >= a.relevance_score
         THEN <<Head(sorted)>> \o InsertDescending(Tail(sorted), a)
         ELSE <<a>> \o sorted

RECURSIVE InsertAscending(_, _)
InsertAscending(sorted, a) ==
    IF sorted = <<>> THEN <<a>>
    ELSE IF Head(sorted).relevance_score <= a.relevance_score
         THEN <<Head(sorted)>> \o InsertAscending(Tail(sorted), a)
         ELSE <<a>> \o sorted

RECURSIVE SortWith(_, _, _)
SortWith(sorted, list, descending) ==
    IF list = <<>> THEN sorted
    ELSE SortWith(IF descending THEN InsertDescending(sorted, Head(list))
                  ELSE InsertAscending(sorted, Head(list)),
                  Tail(list), descending)

Reverse(list) == [i \in 1..Len(list) |-> list[Len(list) + 1 - i]]

\* an ascending sort followed by reverse(): equal scores come out reversed
SortByScore_AscendingThenReverse(list) == Reverse(SortWith(<<>>, list, FALSE))

\* line 1258: list.sort(key=relevance_score, reverse=True), a stable sort
SortByScore(list) == SortWith(<<>>, list, TRUE)

\* lines 1262-1265: the number of found articles per source label
SourceStats(list) ==
    [s \in {list[i].source : i \in 1..Len(list)} |->
        Cardinality({i \in 1..Len(list) : list[i].source = s})]

DedupIdle ==
    /\ articles = <<>>
    /\ saved_articles_ids = {}
    /\ seen_titles = {}
    /\ seen_urls = {}
    /\ seen_ids = {}

SearchInit ==
    /\ DedupIdle
    /\ unique_articles = <<>>
    /\ pc = "start"
    /\ strategies = <<>>
    /\ strategy_index = 0
    /\ saved_ids = {}
    /\ all_found_articles = <<>>
    /\ response = NoResponse
    /\ query_text = <<>>
    /\ ai_call = "none"
    /\ fanouts = <<>>
    /\ AdapterIdle
    /\ FanIdle
    /\ SaveIdle

\* lines 1193-1226: the request is read, the strategies are made and the saved
\* ids are loaded from Drive
HandleSearchStart(data, gemini_key, ai, drive_fails, saved) ==
    /\ pc = "start"
    /\ IF data.empty \/ Strip(data.queryText) = <<>>
       THEN /\ pc' = "done"
            /\ response' = [status |-> 400]
            /\ UNCHANGED <<strategies, strategy_index, saved_ids, query_text,
                           ai_call>>
       ELSE LET text == Strip(data.queryText)
                strategy_list ==
                    IF data.searchType = "ia"
                    THEN get_ai_search_strategies(text, gemini_key, ai)
                    ELSE DirectStrategies(text)
            IN /\ query_text' = text
               /\ ai_call' = IF data.searchType # "ia" THEN "none"
                             ELSE IF ~gemini_key THEN "no_key"
                             ELSE ai.kind
               /\ strategies' = strategy_list
               /\ IF strategy_list = <<>> \/ drive_fails
                  THEN /\ pc' = "done"
                       /\ response' = [status |-> 500]
                       /\ UNCHANGED <<strategy_index, saved_ids>>
                  ELSE /\ pc' = "loop"
                       /\ strategy_index' = 1
                       /\ saved_ids' = {id \in saved : id # <<>>}
                       /\ UNCHANGED response
    /\ UNCHANGED <<dedupVars, unique_articles, all_found_articles, fanouts,
                   adapterVars, fanVars, saveVars>>

\* lines 1230-1246: one strategy; search_all_sources returns the articles
\* `found`, or raises when its as_completed deadline expires (line 815), which
\* the handler answers with a 500 (line 1275)
SearchStrategy ==
    /\ pc = "loop"
    /\ strategy_index <= Len(strategies)
    /\ LET strategy == strategies[strategy_index]
           query == Strip(Get(strategy, "query", <<>>))
           call(found) == [index |-> strategy_index, query |-> query,
                           found |-> found]
       IN IF query = <<>>
          THEN /\ strategy_index' = strategy_index + 1
               /\ UNCHANGED <<pc, all_found_articles, response, fanouts>>
          ELSE \/ /\ pc' = "done"
                  /\ response' = [status |-> 500]
                  /\ fanouts' = Append(fanouts, call(<<>>))
                  /\ UNCHANGED <<strategy_index, all_found_articles>>
               \/ \E found \in SeqsUpTo(FoundPool,
                                        MaxFound - Len(all_found_articles)) :
                     /\ all_found_articles' =
                            all_found_articles
                                \o [i \in 1..Len(found) |->
                                       Stamp(found[i], strategy)]
                     /\ fanouts' = Append(fanouts, call(found))
                     /\ strategy_index' = strategy_index + 1
                     /\ UNCHANGED <<pc, response>>
    /\ UNCHANGED <<dedupVars, unique_articles, strategies, saved_ids,
                   query_text, ai_call, adapterVars, fanVars, saveVars>>

\* line 1248
Deduplicate ==
    /\ pc = "loop"
    /\ strategy_index > Len(strategies)
    /\ unique_articles' = deduplicate_articles(all_found_articles, saved_ids)
    /\ pc' = "rank"
    /\ UNCHANGED <<dedupVars, strategies, strategy_index, saved_ids,
                   all_found_articles, response, query_text, ai_call, fanouts,
                   adapterVars, fanVars, saveVars>>

\* lines 1250-1256
Rank ==
    /\ pc = "rank"
    /\ unique_articles' = Ranked(unique_articles, CurrentYear)
    /\ pc' = "sort"
    /\ UNCHANGED <<dedupVars, strategies, strategy_index, saved_ids,
                   all_found_articles, response, query_text, ai_call, fanouts,
                   adapterVars, fanVars, saveVars>>

\* line 1258
Sort ==
    /\ pc = "sort"
    /\ unique_articles' = SortByScore(unique_articles)
    /\ pc' = "respond"
    /\ UNCHANGED <<dedupVars, strategies, strategy_index, saved_ids,
                   all_found_articles, response, query_text, ai_call, fanouts,
                   adapterVars, fanVars, saveVars>>

\* lines 1260-1273
Respond ==
    /\ pc = "respond"
    /\ response' = [status |-> 200,
                    articles |-> unique_articles,
                    total_found |-> Len(all_found_articles),
                    unique_count |-> Len(unique_articles),
                    source_stats |-> SourceStats(all_found_articles),
                    strategies_used |-> Len(strategies)]
    /\ pc' = "done"
    /\ UNCHANGED <<dedupVars, unique_articles, strategies, strategy_index,
                   saved_ids, all_found_articles, query_text, ai_call, fanouts,
                   adapterVars, fanVars, saveVars>>

SearchNext ==
    \/ \E data \in Requests, gemini_key \in BOOLEAN, ai \in AiResponses,
          drive_fails \in BOOLEAN, saved \in SavedIdChoices :
            HandleSearchStart(data, gemini_key, ai, drive_fails, saved)
    \/ SearchStrategy
    \/ Deduplicate
    \/ Rank
    \/ Sort
    \/ Respond

SpecSearch == SearchInit /\ [][SearchNext]_vars

-----------------------------------------------------------------------------
(* Provider adapters: requests, failures and the handling of exceptions *)

Adapters == {"semantic_scholar", "crossref", "web_of_science", "doaj", "arxiv",
             "openalex", "pubmed", "core"}

\* an adapter set in which search_core goes on without its key
RequiresKey_WosOnly(a) == a = "web_of_science"

\* lines 200 and 704: the adapters that return at once without an API key
RequiresKey(a) == a \in {"web_of_science", "core"}

\* lines 130 and 188: the per-item handler that reads item.get('title') again
HandlerReadsItem(a) == a \in {"semantic_scholar", "crossref"}

\* lines 207-211, and the esearch / efetch pair of lines 622 and 639
RequestCount(a) ==
    IF a = "web_of_science" THEN 3 ELSE IF a = "pubmed" THEN 2 ELSE 1

\* How a request can end: an exception of requests.get, a status code, or a
\* 200 whose body cannot be parsed, has not the expected shape, or is fine.
FailedOutcomes == {"timeout", "401", "429", "500", "512", "unparsable",
                   "wrong_shape"}

\* A field of a provider item as the response carries it: missing, null, a
\* text int() cannot parse, or an integer.
Absent == [kind |-> "absent", value |-> 0]

Null == [kind |-> "null", value |-> 0]

Text == [kind |-> "text", value |-> 0]

Number(n) == [kind |-> "int", value |-> n]

\* The identifier the provider gives an item (paperId, DOI, id, the atom:id
\* URL, PMID): missing, or a text.
AbsentId == [kind |-> "absent", value |-> <<>>]

Id(text) == [kind |-> "text", value |-> text]

\* An item of a parsed response.  shape is "dict" for a well-formed item,
\* "bad_field" for a dict with a field that makes the item's try block raise,
\* "not_dict" for an item that is not a dict at all; month is the bibjson
\* month, which only search_doaj reads.  The items are titled and located
\* after their identifier: two items with one identifier are one paper.
Item(shape, id, year, month, citations) ==
    [shape |-> shape, id |-> id, title |-> <<"t">> \o id.value,
     url |-> <<"u">> \o id.value, year |-> year, month |-> month,
     citations |-> citations]

\* the items the providers answer with: recent and old, much and little
\* cited, and with a year that is missing, null or not a number
ItemPool ==
    {Item("dict", Id(<<"1">>), Number(CurrentYear), Absent, Number(10)),
     Item("dict", Id(<<"1">>), Number(CurrentYear - 2), Absent, Number(10)),
     Item("dict", Id(<<"1">>), Number(CurrentYear), Absent, Number(3)),
     Item("dict", Id(<<"x", "/", "1">>), Number(CurrentYear), Absent, Absent),
     Item("dict", AbsentId, Absent, Absent, Number(10)),
     Item("dict", Id(<<"1">>), Absent, Number(3), Number(10)),
     Item("dict", Id(<<"1">>), Null, Absent, Number(10)),
     Item("dict", Id(<<"1">>), Text, Absent, Number(10)),
     Item("bad_field", Id(<<"1">>), Number(CurrentYear), Absent, Number(10)),
     Item("not_dict", AbsentId, Absent, Absent, Absent)}

Bodies == SeqsUpTo(ItemPool, MaxItems)

\* the thresholds a call is made with: a year before and one after the
\* current year; no citation threshold and one between the counts of ItemPool
MinYearChoices == {CurrentYear - 1, CurrentYear + 1}

MinCitationsChoices == {0, 5}

\* a default year of zero, as the one of search_crossref
Now_Zero == Number(0)

\* datetime.datetime.now().year
Now == Number(CurrentYear)

NoYear == [kind |-> "none", value |-> 0]

Raises == [kind |-> "raise", value |-> 0]

\* The year an adapter resolves for an item: an integer, none at all
\* (search_semantic_scholar keeps a missing year as it is), or an exception
\* raised inside the item's try block.
YearOf(a, item) ==
    LET year == item.year
        month == item.month
    IN CASE a = "semantic_scholar" ->
              \* lines 109-112: `if year and int(year) >= min_year`
              IF year.kind \in {"absent", "null"} THEN NoYear
              ELSE IF year.kind = "text" THEN Raises
              ELSE IF year.value = 0 THEN NoYear
              ELSE year
         [] a = "crossref" ->
              \* lines 160-163: date-parts defaults to [[0]]
              IF year.kind = "absent" THEN Number(0)
              ELSE IF year.kind = "int" THEN year
              ELSE Raises
         [] a = "web_of_science" ->
              \* lines 263-267
              IF year.kind = "int" THEN year ELSE Now
         [] a = "doaj" ->
              \* lines 370-385: bibjson year, else the first part of month
              IF year.kind = "int" /\ year.value # 0 THEN year
              ELSE IF month.kind = "int" THEN month
              ELSE IF month.kind = "null" THEN Raises
              ELSE Now
         [] a = "arxiv" ->
              \* lines 468-475: the year of the published date
              IF year.kind = "int" THEN year ELSE Now
         [] a = "openalex" ->
              \* lines 553-556: a null or text year fails the comparison
              IF year.kind = "absent" THEN Now
              ELSE IF year.kind = "int" THEN year
              ELSE Raises
         [] a = "pubmed" ->
              \* lines 660-666: the text of PubDate/Year
              IF year.kind = "int" THEN year ELSE Now
         [] a = "core" ->
              \* lines 743-750
              IF year.kind = "int" /\ year.value # 0 THEN year ELSE Now

\* the citation count an adapter gives the article
CitationsOf(a, item) ==
    IF a \in {"semantic_scholar", "crossref", "web_of_science", "openalex"}
         /\ item.citations.kind = "int"
    THEN item.citations.value
    ELSE 0

\* lines 112, 275 and 556: the adapters that compare citations with
\* min_citations
FiltersByCitations(a) ==
    a \in {"semantic_scholar", "web_of_science", "openalex"}

\* lines 112, 163, 275, 387, 477, 556 and 752: the adapters that compare the
\* year with min_year; search_pubmed only puts min_year in the query (line 617)
FiltersByYear(a) == a # "pubmed"

\* the text after the last "/" of a text: text.split('/')[-1]
RECURSIVE LastSegment(_)
LastSegment(text) ==
    IF \E k \in 1..Len(text) : text[k] = "/"
    THEN LastSegment(Tail(text))
    ELSE text

\* str(time.time()): the digits of the clock at the moment the dict is built
TimeText == <<"1", "7", ".", "5">>

\* an adapter set in which no id carries the provider's tag
Tag_None(a) == <<>>

\* the prefix each adapter puts before the native identifier
\* (lines 118, 176, 284, 409, 490, 586, 679, 762)
Tag(a) ==
    CASE a = "semantic_scholar" -> <<"s", "s", "_">>
      [] a = "crossref" -> <<"c", "r", "_">>
      [] a = "web_of_science" -> <<"w", "o", "s", "_">>
      [] a = "doaj" -> <<"d", "o", "a", "j", "_">>
      [] a = "arxiv" -> <<"a", "r", "x", "i", "v", "_">>
      [] a = "openalex" -> <<"o", "a", "_">>
      [] a = "pubmed" -> <<"p", "m", "_">>
      [] a = "core" -> <<"c", "o", "r", "e", "_">>

\* the identifier an adapter puts after its tag: the native one, its last
\* path segment, and for a missing one the empty text or the clock
NativeId(a, item) ==
    CASE a \in {"semantic_scholar", "crossref", "pubmed"} -> item.id.value
      [] a = "openalex" -> LastSegment(item.id.value)
      [] a \in {"web_of_science", "doaj", "core"} ->
           IF item.id.kind = "absent" THEN TimeText ELSE item.id.value
      [] a = "arxiv" ->
           IF item.id.value = <<>> THEN TimeText
           ELSE LastSegment(item.id.value)

ArticleId(a, item) == Tag(a) \o NativeId(a, item)

\* the provider's name at the head of the 'source' of its articles
\* (lines 122, 180, 288, 413, 494, 590, 683, 766)
SourceLabel(a) ==
    CASE a = "semantic_scholar" -> "Semantic Scholar"
      [] a = "crossref" -> "CrossRef"
      [] a = "web_of_science" -> "Web of Science"
      [] a = "doaj" -> "DOAJ"
      [] a = "arxiv" -> "arXiv"
      [] a = "openalex" -> "OpenAlex"
      [] a = "pubmed" -> "PubMed"
      [] a = "core" -> "CORE"

\* the dict built for the item at position i (lines 117-127 and alike)
BuiltArticle(a, item, i, year, citations) ==
    [provider |-> a, item |-> i, id |-> ArticleId(a, item),
     title |-> item.title, url |-> item.url, source |-> SourceLabel(a),
     year |-> year, citations |-> citations]

\* What the try block of one item does: appends an article, appends nothing,
\* or raises.
ItemOutcome(a, item, i, minYear, minCitations) ==
    LET year == YearOf(a, item)
        citations == CitationsOf(a, item)
    IN IF item.shape # "dict" \/ year.kind = "raise"
       THEN [kind |-> "raise", article |-> BuiltArticle(a, item, i, 0, 0)]
       ELSE IF \/ year.kind = "none"
               \/ FiltersByYear(a) /\ year.value < minYear
               \/ FiltersByCitations(a) /\ citations < minCitations
       THEN [kind |-> "skip", article |-> BuiltArticle(a, item, i, 0, 0)]
       ELSE [kind |-> "append",
             article |-> BuiltArticle(a, item, i, year.value, citations)]

Returned(list) == [status |-> "returned", articles |-> list]

\* an adapter whose outer handler lets the exception through
OnException_Reraises(a) == [status |-> "raised", articles |-> <<>>]

\* the outer `except Exception: ... return []` of every adapter
\* (lines 136, 194, 327, 428, 509, 605, 698, 781)
OnException(a) == Returned(<<>>)

\* the loop over the items, each in its own try block; the handler of the
\* block raises in turn when it calls item.get on an item that is not a dict
RECURSIVE ProcessItems(_, _, _, _, _, _)
ProcessItems(a, list, minYear, minCitations, i, acc) ==
    IF i > Len(list) THEN Returned(acc)
    ELSE LET outcome == ItemOutcome(a, list[i], i, minYear, minCitations)
         IN IF outcome.kind = "append"
            THEN ProcessItems(a, list, minYear, minCitations, i + 1,
                              Append(acc, outcome.article))
            ELSE IF list[i].shape = "not_dict" /\ HandlerReadsItem(a)
            THEN OnException(a)
            ELSE ProcessItems(a, list, minYear, minCitations, i + 1, acc)

AdapterInit ==
    /\ DedupIdle
    /\ unique_articles = <<>>
    /\ SearchIdle
    /\ AdapterIdle
    /\ FanIdle
    /\ SaveIdle

Finish(result) ==
    /\ adapter_pc' = "done"
    /\ adapter_result' = result

\* the call, up to the first request: without the key it needs the adapter
\* returns at once
AdapterCall(a, has_key, minYear, minCitations) ==
    /\ adapter_pc = "idle"
    /\ adapter' = a
    /\ api_key' = has_key
    /\ min_year' = minYear
    /\ min_citations' = minCitations
    /\ IF RequiresKey(a) /\ ~has_key
       THEN /\ Finish(Returned(<<>>))
            /\ UNCHANGED <<endpoint, exchanges>>
       ELSE /\ adapter_pc' = "request"
            /\ endpoint' = 1
            /\ UNCHANGED <<exchanges, adapter_result>>
    /\ UNCHANGED items
    /\ UNCHANGED <<dedupVars, unique_articles, searchVars, fanVars, saveVars>>

\* a loop over the items after which the adapter does not return
Process_NoReturn(body) ==
    /\ items' = body
    /\ UNCHANGED <<adapter_pc, adapter_result>>

\* the loop over the items of a response that was parsed
Process(body) ==
    /\ items' = body
    /\ Finish(ProcessItems(adapter, body, min_year, min_citations, 1, <<>>))

\* a request of an adapter with one endpoint, and what follows it
SingleRequest(outcome, body) ==
    /\ adapter_pc = "request"
    /\ RequestCount(adapter) = 1
    /\ exchanges' = Append(exchanges, [endpoint |-> endpoint, outcome |-> outcome])
    /\ IF outcome = "ok"
       THEN Process(body)
       ELSE Finish(OnException(adapter)) /\ UNCHANGED items
    /\ UNCHANGED <<adapter, endpoint, api_key, min_year, min_citations>>
    /\ UNCHANGED <<dedupVars, unique_articles, searchVars, fanVars, saveVars>>

\* search_pubmed, lines 622-630: esearch; the body stands for the id list
PubmedSearch(outcome, body) ==
    /\ adapter_pc = "request"
    /\ adapter = "pubmed"
    /\ endpoint = 1
    /\ exchanges' = Append(exchanges, [endpoint |-> endpoint, outcome |-> outcome])
    /\ IF outcome # "ok"
       THEN Finish(OnException(adapter)) /\ UNCHANGED endpoint
       ELSE IF body = <<>>
       THEN Finish(Returned(<<>>)) /\ UNCHANGED endpoint
       ELSE endpoint' = 2 /\ UNCHANGED <<adapter_pc, adapter_result>>
    /\ UNCHANGED <<adapter, api_key, min_year, min_citations, items>>
    /\ UNCHANGED <<dedupVars, unique_articles, searchVars, fanVars, saveVars>>

\* search_pubmed, lines 632-696: efetch and the loop over the records
PubmedFetch(outcome, body) ==
    /\ adapter_pc = "request"
    /\ adapter = "pubmed"
    /\ endpoint = 2
    /\ exchanges' = Append(exchanges, [endpoint |-> endpoint, outcome |-> outcome])
    /\ IF outcome = "ok"
       THEN Process(body)
       ELSE Finish(OnException(adapter)) /\ UNCHANGED items
    /\ UNCHANGED <<adapter, endpoint, api_key, min_year, min_citations>>
    /\ UNCHANGED <<dedupVars, unique_articles, searchVars, fanVars, saveVars>>

\* search_web_of_science whose loop goes on to the next endpoint after a 401
WosRequest_ContinuesAfter401(outcome, body) ==
    /\ adapter_pc = "request"
    /\ adapter = "web_of_science"
    /\ exchanges' = Append(exchanges, [endpoint |-> endpoint, outcome |-> outcome])
    /\ IF outcome = "ok"
       THEN Process(body) /\ UNCHANGED endpoint
       ELSE IF endpoint = RequestCount(adapter)
       THEN Finish(Returned(<<>>)) /\ UNCHANGED <<endpoint, items>>
       ELSE endpoint' = endpoint + 1
            /\ UNCHANGED <<adapter_pc, adapter_result, items>>
    /\ UNCHANGED <<adapter, api_key, min_year, min_citations>>
    /\ UNCHANGED <<dedupVars, unique_articles, searchVars, fanVars, saveVars>>

\* search_web_of_science, lines 228-325: one pass of the loop over the
\* endpoints
WosRequest(outcome, body) ==
    /\ adapter_pc = "request"
    /\ adapter = "web_of_science"
    /\ exchanges' = Append(exchanges, [endpoint |-> endpoint, outcome |-> outcome])
    /\ IF outcome = "ok"
       THEN Process(body) /\ UNCHANGED endpoint
       ELSE IF outcome = "401" \/ endpoint = RequestCount(adapter)
       THEN Finish(Returned(<<>>)) /\ UNCHANGED <<endpoint, items>>
       ELSE endpoint' = endpoint + 1
            /\ UNCHANGED <<adapter_pc, adapter_result, items>>
    /\ UNCHANGED <<adapter, api_key, min_year, min_citations>>
    /\ UNCHANGED <<dedupVars, unique_articles, searchVars, fanVars, saveVars>>

Outcomes == FailedOutcomes \cup {"ok"}

\* only a response that was parsed has items
BodiesOf(outcome) == IF outcome = "ok" THEN Bodies ELSE {<<>>}

AdapterNext ==
    \/ \E a \in Adapters, has_key \in BOOLEAN, minYear \in MinYearChoices,
          minCitations \in MinCitationsChoices :
          AdapterCall(a, has_key, minYear, minCitations)
    \/ \E outcome \in Outcomes : \E body \in BodiesOf(outcome) :
          SingleRequest(outcome, body)
    \/ \E outcome \in Outcomes : \E body \in BodiesOf(outcome) :
          PubmedSearch(outcome, body)
    \/ \E outcome \in Outcomes : \E body \in BodiesOf(outcome) :
          PubmedFetch(outcome, body)
    \/ \E outcome \in Outcomes : \E body \in BodiesOf(outcome) :
          WosRequest(outcome, body)

SpecAdapter == AdapterInit /\ [][AdapterNext]_vars

-----------------------------------------------------------------------------
(* search_all_sources: the fan-out over a pool of worker threads *)

\* line 807: ThreadPoolExecutor(max_workers=4)
MaxWorkers == 4

\* names a request can select: two keys of search_functions (a provider that
\* reports citations and one that does not) and a name it does not have
SourceNames == {"crossref", "arxiv", "scopus"}

\* lines 794-803: the keys of search_functions
SearchFunctions == Adapters

\* lines 789-792: the sources of a request that names none
DefaultSources ==
    <<"semantic_scholar", "crossref", "doaj", "arxiv", "openalex", "pubmed",
      "web_of_science", "core">>

\* a request that selects one provider more than the pool has threads: the
\* first providers of the default list that are not in SourceNames
LongSelection ==
    SubSeq(SelectSeq(DefaultSources, LAMBDA s : s \notin SourceNames),
           1, MaxWorkers + 1)

SelectedChoices == SeqsUpTo(SourceNames, MaxSelected) \cup {LongSelection}

\* the thresholds of the call
TaskMinYear == CurrentYear - 1

TaskMinCitations == 5

\* the responses the provider of a task may give: no item, or one item that
\* is recent and much cited, recent and little cited, or old
TaskBodies ==
    SeqsUpTo({Item("dict", Id(<<"1">>), Number(CurrentYear), Absent,
                   Number(10)),
              Item("dict", Id(<<"1">>), Number(CurrentYear), Absent,
                   Number(3)),
              Item("dict", Id(<<"1">>), Number(CurrentYear - 2), Absent,
                   Number(10))}, 1)

Raised == [status |-> "raised", articles |-> <<>>]

\* How the task of a source can end: with the list the adapter returns for a
\* response (the empty list when a request failed), or with an exception,
\* which line 821 provides for.  The providers of LongSelection find nothing.
TaskResults(source) ==
    IF source \in SourceNames
    THEN {ProcessItems(source, body, TaskMinYear, TaskMinCitations, 1, <<>>) :
             body \in TaskBodies} \cup {Raised}
    ELSE {Returned(<<>>)}

\* a future of the executor: queued, running or finished
Future(source) == [source |-> source, state |-> "queued", result |-> NoResult]

\* a loop that submits a task for every name, known or not
Submitted_KeepsUnknown(selected) ==
    [k \in 1..Len(selected) |-> Future(selected[k])]

\* lines 810-813: the futures submitted, in the order of selected_sources
RECURSIVE Submitted(_)
Submitted(selected) ==
    IF selected = <<>> THEN <<>>
    ELSE IF Head(selected) \in SearchFunctions
    THEN <<Future(Head(selected))>> \o Submitted(Tail(selected))
    ELSE Submitted(Tail(selected))

Futures == DOMAIN future_to_source

InState(state) == {f \in Futures : future_to_source[f].state = state}

Uncollected == {f \in Futures : \A k \in DOMAIN collected : collected[k] # f}

FanInit ==
    /\ DedupIdle
    /\ unique_articles = <<>>
    /\ SearchIdle
    /\ AdapterIdle
    /\ FanIdle
    /\ SaveIdle

\* lines 785-813: the call, up to the submission of the tasks
SearchAllSources(selected) ==
    /\ fan_pc = "idle"
    /\ selected_sources' = selected
    /\ future_to_source' = Submitted(selected)
    /\ all_articles' = <<>>
    /\ fan_pc' = "submitted"
    /\ UNCHANGED <<completion, snapshot, collected, timed_out, fan_result>>
    /\ UNCHANGED <<dedupVars, unique_articles, searchVars, adapterVars, saveVars>>

\* line 815: the call of as_completed, which notes the futures that have
\* finished by then
AsCompleted ==
    /\ fan_pc = "submitted"
    /\ snapshot' = InState("finished")
    /\ fan_pc' = "collect"
    /\ UNCHANGED <<selected_sources, future_to_source, completion, collected,
                   all_articles, timed_out, fan_result>>
    /\ UNCHANGED <<dedupVars, unique_articles, searchVars, adapterVars, saveVars>>

\* an executor that starts a thread for every task
TaskStart_NoLimit ==
    /\ InState("queued") # {}
    /\ LET f == CHOOSE q \in InState("queued") :
                    \A other \in InState("queued") : q <= other
       IN future_to_source' = [future_to_source EXCEPT ![f].state = "running"]
    /\ UNCHANGED <<selected_sources, completion, snapshot, collected,
                   all_articles, timed_out, fan_pc, fan_result>>
    /\ UNCHANGED <<dedupVars, unique_articles, searchVars, adapterVars, saveVars>>

\* a worker thread takes the oldest queued task; there are at most
\* max_workers threads
TaskStart ==
    /\ InState("queued") # {}
    /\ Cardinality(InState("running")) < MaxWorkers
    /\ LET f == CHOOSE q \in InState("queued") :
                    \A other \in InState("queued") : q <= other
       IN future_to_source' = [future_to_source EXCEPT ![f].state = "running"]
    /\ UNCHANGED <<selected_sources, completion, snapshot, collected,
                   all_articles, timed_out, fan_pc, fan_result>>
    /\ UNCHANGED <<dedupVars, unique_articles, searchVars, adapterVars, saveVars>>

\* the adapter of a running task returns or raises
TaskFinish(f, result) ==
    /\ f \in InState("running")
    /\ future_to_source' = [future_to_source EXCEPT ![f].state = "finished",
                                                    ![f].result = result]
    /\ completion' = Append(completion, f)
    /\ UNCHANGED <<selected_sources, snapshot, collected, all_articles,
                   timed_out, fan_pc, fan_result>>
    /\ UNCHANGED <<dedupVars, unique_articles, searchVars, adapterVars, saveVars>>

\* an as_completed that yields the finished futures in any order
Yieldable_AnyFinished == InState("finished") \cap Uncollected

\* The futures as_completed can yield next: those that had finished when it
\* was called, which it keeps in a set and yields in no particular order;
\* after them the others, in the order in which they finish.
Yieldable ==
    IF snapshot \cap Uncollected # {}
    THEN snapshot \cap Uncollected
    ELSE {f \in InState("finished") \cap Uncollected :
             \A k, l \in DOMAIN completion :
                 (completion[k] = f /\ completion[l] \in Uncollected)
                     => k <= l}

\* lines 815-822: as_completed yields a finished future; its articles are
\* added, or its exception is logged
Collect(f) ==
    /\ fan_pc = "collect"
    /\ f \in Yieldable
    /\ collected' = Append(collected, f)
    /\ all_articles' =
          IF future_to_source[f].result.status = "returned"
          THEN all_articles \o future_to_source[f].result.articles
          ELSE all_articles
    /\ UNCHANGED <<selected_sources, future_to_source, completion, snapshot,
                   timed_out, fan_pc, fan_result>>
    /\ UNCHANGED <<dedupVars, unique_articles, searchVars, adapterVars, saveVars>>

\* line 815: as_completed has yielded every future
LoopEnd ==
    /\ fan_pc = "collect"
    /\ Uncollected = {}
    /\ fan_pc' = "exit"
    /\ UNCHANGED <<selected_sources, future_to_source, completion, snapshot,
                   collected, all_articles, timed_out, fan_result>>
    /\ UNCHANGED <<dedupVars, unique_articles, searchVars, adapterVars, saveVars>>

\* line 815: as_completed(..., timeout=60) raises TimeoutError when the time is
\* over and a future has not finished; nothing in search_all_sources catches it
Deadline ==
    /\ fan_pc = "collect"
    /\ InState("queued") \cup InState("running") # {}
    /\ timed_out' = TRUE
    /\ fan_pc' = "exit"
    /\ UNCHANGED <<selected_sources, future_to_source, completion, snapshot,
                   collected, all_articles, fan_result>>
    /\ UNCHANGED <<dedupVars, unique_articles, searchVars, adapterVars, saveVars>>

\* an executor that is shut down without waiting for its tasks
Exit_NoWait ==
    /\ fan_pc = "exit"
    /\ fan_pc' = "done"
    /\ fan_result' = IF timed_out THEN Raised ELSE Returned(all_articles)
    /\ UNCHANGED <<selected_sources, future_to_source, completion, snapshot,
                   collected, all_articles, timed_out>>
    /\ UNCHANGED <<dedupVars, unique_articles, searchVars, adapterVars, saveVars>>

\* lines 807 and 824: the with block is left, which waits for every task, and
\* the function returns all_articles or lets the TimeoutError through
Exit ==
    /\ fan_pc = "exit"
    /\ InState("finished") = Futures
    /\ fan_pc' = "done"
    /\ fan_result' = IF timed_out THEN Raised ELSE Returned(all_articles)
    /\ UNCHANGED <<selected_sources, future_to_source, completion, snapshot,
                   collected, all_articles, timed_out>>
    /\ UNCHANGED <<dedupVars, unique_articles, searchVars, adapterVars, saveVars>>

FanNext ==
    \/ \E selected \in SelectedChoices : SearchAllSources(selected)
    \/ AsCompleted
    \/ TaskStart
    \/ \E f \in Futures : \E result \in TaskResults(future_to_source[f].source) :
          TaskFinish(f, result)
    \/ \E f \in Futures : Collect(f)
    \/ LoopEnd
    \/ Deadline
    \/ Exit

SpecFanout == FanInit /\ [][FanNext]_vars

-----------------------------------------------------------------------------
(* handle_search with its calls of search_all_sources: the handler thread   *)
(* is inside the call from the submission of the tasks to the return        *)

\* the sources lists of the requests
PipelineSelections == {<<"crossref", "arxiv">>, <<"arxiv">>}

\* lines 1231-1233: a strategy without a query is passed over
StrategySkip ==
    /\ pc = "loop"
    /\ fan_pc = "idle"
    /\ strategy_index <= Len(strategies)
    /\ Strip(Get(strategies[strategy_index], "query", <<>>)) = <<>>
    /\ strategy_index' = strategy_index + 1
    /\ UNCHANGED <<pc, strategies, saved_ids, all_found_articles, response,
                   query_text, ai_call, fanouts>>
    /\ UNCHANGED <<dedupVars, unique_articles, adapterVars, fanVars, saveVars>>

\* line 1240 and lines 785-813: the handler calls search_all_sources with the
\* sources of the request; a new executor gets the tasks
StrategyCall(selected) ==
    /\ pc = "loop"
    /\ fan_pc = "idle"
    /\ strategy_index <= Len(strategies)
    /\ Strip(Get(strategies[strategy_index], "query", <<>>)) # <<>>
    /\ fanouts # <<>> => selected = selected_sources
    /\ selected_sources' = selected
    /\ future_to_source' = Submitted(selected)
    /\ completion' = <<>>
    /\ snapshot' = {}
    /\ collected' = <<>>
    /\ all_articles' = <<>>
    /\ timed_out' = FALSE
    /\ fan_result' = NoResult
    /\ fan_pc' = "submitted"
    /\ UNCHANGED <<dedupVars, unique_articles, searchVars, adapterVars, saveVars>>

\* a handler that goes on while the call it made is still collecting
StrategyReturn_NoWait ==
    /\ pc = "loop"
    /\ fan_pc \in {"collect", "exit", "done"}
    /\ LET strategy == strategies[strategy_index]
           call(found) == [index |-> strategy_index,
                           query |-> Strip(Get(strategy, "query", <<>>)),
                           found |-> found]
       IN /\ all_found_articles' =
                 all_found_articles
                     \o [i \in 1..Len(all_articles) |->
                            Stamp(all_articles[i], strategy)]
          /\ fanouts' = Append(fanouts, call(all_articles))
          /\ strategy_index' = strategy_index + 1
          /\ UNCHANGED <<pc, response>>
    /\ fan_pc' = "idle"
    /\ UNCHANGED <<selected_sources, future_to_source, completion, snapshot,
                   collected, all_articles, timed_out, fan_result>>
    /\ UNCHANGED <<dedupVars, unique_articles, strategies, saved_ids,
                   query_text, ai_call, adapterVars, saveVars>>

\* lines 1240-1246 and 1275-1277: the call returns and its articles are
\* stamped and added, or it raises and the handler answers 500
StrategyReturn ==
    /\ pc = "loop"
    /\ fan_pc = "done"
    /\ LET strategy == strategies[strategy_index]
           call(found) == [index |-> strategy_index,
                           query |-> Strip(Get(strategy, "query", <<>>)),
                           found |-> found]
       IN IF fan_result.status = "raised"
          THEN /\ pc' = "done"
               /\ response' = [status |-> 500]
               /\ fanouts' = Append(fanouts, call(<<>>))
               /\ UNCHANGED <<strategy_index, all_found_articles>>
          ELSE /\ all_found_articles' =
                      all_found_articles
                          \o [i \in 1..Len(fan_result.articles) |->
                                 Stamp(fan_result.articles[i], strategy)]
               /\ fanouts' = Append(fanouts, call(fan_result.articles))
               /\ strategy_index' = strategy_index + 1
               /\ UNCHANGED <<pc, response>>
    /\ fan_pc' = "idle"
    /\ UNCHANGED <<selected_sources, future_to_source, completion, snapshot,
                   collected, all_articles, timed_out, fan_result>>
    /\ UNCHANGED <<dedupVars, unique_articles, strategies, saved_ids,
                   query_text, ai_call, adapterVars, saveVars>>

PipelineNext ==
    \/ \E data \in Requests, gemini_key \in BOOLEAN, ai \in AiResponses,
          drive_fails \in BOOLEAN, saved \in SavedIdChoices :
            HandleSearchStart(data, gemini_key, ai, drive_fails, saved)
    \/ StrategySkip
    \/ \E selected \in PipelineSelections : StrategyCall(selected)
    \/ AsCompleted
    \/ TaskStart
    \/ \E f \in Futures : \E result \in TaskResults(future_to_source[f].source) :
          TaskFinish(f, result)
    \/ \E f \in Futures : Collect(f)
    \/ LoopEnd
    \/ Deadline
    \/ Exit
    \/ StrategyReturn
    \/ Deduplicate
    \/ Rank
    \/ Sort
    \/ Respond

SpecPipeline == SearchInit /\ [][PipelineNext]_vars

-----------------------------------------------------------------------------
(* handle_generate and handle_add_by_url: the saved-articles file on Drive, *)
(* which each request loads, extends in memory and writes back.  An article *)
(* stands for its id.                                                       *)

MaxBatch == 2        \* most articles in one request of handle_generate

ArticleIds == {"a", "b"}

\* what the file holds before the requests
DriveFiles == {<<>>, <<"b">>}

\* line 1487: the lists of articles a request of handle_generate carries
Batches == SeqsUpTo(ArticleIds, MaxBatch)

\* lines 1071-1086: the list of the file, or the empty list when the download
\* or the parsing fails
load_saved_articles_from_drive(load_ok) ==
    IF load_ok THEN drive_file ELSE <<>>

\* lines 1410 and 1496: {a.get('id') for a in saved_articles if a.get('id')}
SavedIds(saved_articles) ==
    {saved_articles[k] : k \in DOMAIN saved_articles} \ {""}

\* lines 1502-1505: the articles a summary is asked for, which are those
\* whose id is not in saved_ids; saved_ids is not extended on the way
Submittable(articles_to_save, ids) ==
    SelectSeq(articles_to_save, LAMBDA article : article \notin ids)

\* lines 1507-1568: the articles of the list whose summary and upload went
\* well, in the order of the list
RECURSIVE Processed(_, _)
Processed(submitted, went_well) ==
    IF submitted = <<>> THEN <<>>
    ELSE (IF went_well[1] THEN <<Head(submitted)>> ELSE <<>>)
            \o Processed(Tail(submitted),
                         [k \in 1..(Len(submitted) - 1) |-> went_well[k + 1]])

SaveInit ==
    /\ DedupIdle
    /\ unique_articles = <<>>
    /\ SearchIdle
    /\ AdapterIdle
    /\ FanIdle
    /\ drive_file \in DriveFiles
    /\ handlers = [r \in Requesters |-> IdleHandler]

\* lines 1481-1568 of handle_generate: the request is read, the file is
\* loaded, and every article not yet saved gets its summary and its Markdown
\* file and is appended to the list in memory
HandleGenerateLoad(r, articles_to_save, load_ok, went_well) ==
    /\ handlers[r].pc = "idle"
    /\ IF articles_to_save = <<>>
       THEN handlers' = [handlers EXCEPT ![r].route = "generate",
                                         ![r].pc = "done",
                                         ![r].status = "400"]
       ELSE LET saved_articles == load_saved_articles_from_drive(load_ok)
                known_ids == SavedIds(saved_articles)
                done == Processed(Submittable(articles_to_save, known_ids),
                                  went_well)
            IN handlers' = [handlers EXCEPT
                               ![r].route = "generate",
                               ![r].pc = "save",
                               ![r].loaded = load_ok,
                               ![r].saved_articles = saved_articles \o done,
                               ![r].processed = done]
    /\ UNCHANGED drive_file
    /\ UNCHANGED <<dedupVars, unique_articles, searchVars, adapterVars,
                   fanVars>>

\* lines 1570-1577 of handle_generate: the file is written when an article
\* was processed, and the request is answered; an exception of the upload is
\* answered with 500
HandleGenerateSave(r, save_ok) ==
    /\ handlers[r].route = "generate"
    /\ handlers[r].pc = "save"
    /\ IF handlers[r].processed = <<>>
       THEN /\ handlers' = [handlers EXCEPT ![r].pc = "done",
                                            ![r].status = "success"]
            /\ UNCHANGED drive_file
       ELSE IF save_ok
       THEN /\ drive_file' = handlers[r].saved_articles
            /\ handlers' = [handlers EXCEPT ![r].pc = "done",
                                            ![r].wrote = TRUE,
                                            ![r].status = "success"]
       ELSE /\ handlers' = [handlers EXCEPT ![r].pc = "done",
                                            ![r].status = "500"]
            /\ UNCHANGED drive_file
    /\ UNCHANGED <<dedupVars, unique_articles, searchVars, adapterVars,
                   fanVars>>

\* lines 1395-1453 of handle_add_by_url: the page is scraped, the file is
\* loaded, and an article that is not saved yet gets its summary and its
\* Markdown file and is appended to the list in memory
HandleAddByUrlLoad(r, article_data, load_ok, went_well) ==
    /\ handlers[r].pc = "idle"
    /\ LET saved_articles == load_saved_articles_from_drive(load_ok)
           known_ids == SavedIds(saved_articles)
       IN IF article_data \in known_ids
          THEN handlers' = [handlers EXCEPT ![r].route = "add_by_url",
                                            ![r].pc = "done",
                                            ![r].loaded = load_ok,
                                            ![r].status = "info"]
          ELSE IF ~went_well
          THEN handlers' = [handlers EXCEPT ![r].route = "add_by_url",
                                            ![r].pc = "done",
                                            ![r].loaded = load_ok,
                                            ![r].status = "500"]
          ELSE handlers' = [handlers EXCEPT
                               ![r].route = "add_by_url",
                               ![r].pc = "save",
                               ![r].loaded = load_ok,
                               ![r].saved_articles =
                                   Append(saved_articles, article_data),
                               ![r].processed = <<article_data>>]
    /\ UNCHANGED drive_file
    /\ UNCHANGED <<dedupVars, unique_articles, searchVars, adapterVars,
                   fanVars>>

\* lines 1454-1475 of handle_add_by_url: the file is written and the request
\* is answered
HandleAddByUrlSave(r, save_ok) ==
    /\ handlers[r].route = "add_by_url"
    /\ handlers[r].pc = "save"
    /\ IF save_ok
       THEN /\ drive_file' = handlers[r].saved_articles
            /\ handlers' = [handlers EXCEPT ![r].pc = "done",
                                            ![r].wrote = TRUE,
                                            ![r].status = "success"]
       ELSE /\ handlers' = [handlers EXCEPT ![r].pc = "done",
                                            ![r].status = "500"]
            /\ UNCHANGED drive_file
    /\ UNCHANGED <<dedupVars, unique_articles, searchVars, adapterVars,
                   fanVars>>

SaveNext ==
    \/ \E r \in Requesters, articles_to_save \in Batches, load_ok \in BOOLEAN :
          \E went_well \in [1..Len(articles_to_save) -> BOOLEAN] :
              HandleGenerateLoad(r, articles_to_save, load_ok, went_well)
    \/ \E r \in Requesters, save_ok \in BOOLEAN : HandleGenerateSave(r, save_ok)
    \/ \E r \in Requesters, article_data \in ArticleIds, load_ok \in BOOLEAN,
          went_well \in BOOLEAN :
              HandleAddByUrlLoad(r, article_data, load_ok, went_well)
    \/ \E r \in Requesters, save_ok \in BOOLEAN : HandleAddByUrlSave(r, save_ok)

SpecSave == SaveInit /\ [][SaveNext]_vars

-----------------------------------------------------------------------------
(* Properties of deduplicate_articles, checked under SpecDedup: in every     *)
(* state unique_articles is the value returned for the input articles.       *)

Positions(list) == 1..Len(list)

\* for each position of the list, whether the loop appended that article
RECURSIVE KeptFlags(_, _, _)
KeptFlags(st, list, saved) ==
    IF list = <<>> THEN <<>>
    ELSE LET next == DedupBody(st, Head(list), saved)
         IN <<Len(next.unique_articles) > Len(st.unique_articles)>>
                \o KeptFlags(next, Tail(list), saved)

\* position k of the input was appended to the output
KeptAt(k) == KeptFlags(DedupStart, articles, saved_articles_ids)[k]

HasTitleAndUrl(a) == NormTitle(a) # <<>> /\ NormUrl(a) # <<>>

ContainedTitles(a, b) ==
    /\ Len(NormTitle(a)) > 20
    /\ Len(NormTitle(b)) > 20
    /\ \/ IsSubstring(NormTitle(a), NormTitle(b))
       \/ IsSubstring(NormTitle(b), NormTitle(a))

\* C1: no two returned articles have the same trimmed URL, the same
\* lower-cased trimmed title, or titles both longer than 20 characters of
\* which one contains the other.
C1_NoTitleOrUrlDuplicates ==
    \A i, j \in Positions(unique_articles) :
        i < j =>
            /\ NormUrl(unique_articles[i]) # NormUrl(unique_articles[j])
            /\ NormTitle(unique_articles[i]) # NormTitle(unique_articles[j])
            /\ ~ContainedTitles(unique_articles[i], unique_articles[j])

\* the input held a title and a longer title containing it (different urls,
\* different ids), and only the first was returned
C1_Witness ==
    /\ Len(articles) = 2
    /\ unique_articles = <<articles[1]>>
    /\ ~IsSaved(articles[2], saved_articles_ids)
    /\ HasTitleAndUrl(articles[2])
    /\ NormTitle(articles[1]) # NormTitle(articles[2])
    /\ ContainedTitles(articles[1], articles[2])
    /\ NormUrl(articles[1]) # NormUrl(articles[2])
    /\ NormId(articles[1]) # NormId(articles[2])

\* C2 as stated: no two returned articles have equal ids, an empty or absent
\* id included.
C2_NoEqualIds ==
    \A i, j \in Positions(unique_articles) :
        i < j => Get(unique_articles[i], "id", None)
                     # Get(unique_articles[j], "id", None)

\* C2 amended: two returned articles have equal ids only when that id is
\* empty, blank or absent.
C2_NoEqualNonEmptyIds ==
    \A i, j \in Positions(unique_articles) :
        (/\ i < j
         /\ Get(unique_articles[i], "id", None)
                = Get(unique_articles[j], "id", None))
            => NormId(unique_articles[i]) = <<>>

\* two articles with the same non-empty id and nothing else in common were
\* scanned, and only the first was returned
C2_Witness ==
    /\ Len(articles) = 2
    /\ unique_articles = <<articles[1]>>
    /\ Get(articles[1], "id", None) = Get(articles[2], "id", None)
    /\ NormId(articles[2]) # <<>>
    /\ HasTitleAndUrl(articles[2])
    /\ NormUrl(articles[1]) # NormUrl(articles[2])
    /\ NormTitle(articles[1]) # NormTitle(articles[2])
    /\ ~ContainedTitles(articles[1], articles[2])

\* C4: every returned article has a non-empty title and a non-empty URL after
\* trimming, and no input article lacking one of them is returned.
C4_TitleAndUrlRequired ==
    LET kept == KeptFlags(DedupStart, articles, saved_articles_ids)
    IN /\ \A i \in Positions(unique_articles) :
             HasTitleAndUrl(unique_articles[i])
       /\ \A k \in Positions(articles) :
             ~HasTitleAndUrl(articles[k]) => ~kept[k]

\* a lone article with a title, a blank url and an unsaved id was scanned and
\* not returned
C4_Witness ==
    /\ Len(articles) = 1
    /\ NormTitle(articles[1]) # <<>>
    /\ NormUrl(articles[1]) = <<>>
    /\ ~IsSaved(articles[1], saved_articles_ids)
    /\ unique_articles = <<>>

\* C5: deduplicating the returned list again, with the same saved ids, returns
\* the same sequence.
C5_Idempotent ==
    deduplicate_articles(unique_articles, saved_articles_ids) = unique_articles

\* three articles were scanned, the second was dropped and two were returned
C5_Witness ==
    /\ Len(articles) = 3
    /\ Len(unique_articles) = 2
    /\ KeptAt(1)
    /\ ~KeptAt(2)
    /\ KeptAt(3)

RECURSIVE IsSubsequence(_, _)
IsSubsequence(s, t) ==
    IF s = <<>> THEN TRUE
    ELSE IF t = <<>> THEN FALSE
    ELSE IF Head(s) = Head(t) THEN IsSubsequence(Tail(s), Tail(t))
    ELSE IsSubsequence(s, Tail(t))

\* a and b are duplicates of each other by title, url or id
PairDuplicate(a, b) ==
    \/ NormTitle(a) # <<>> /\ NormTitle(a) = NormTitle(b)
    \/ ContainedTitles(a, b)
    \/ NormUrl(a) # <<>> /\ NormUrl(a) = NormUrl(b)
    \/ NormId(a) # <<>> /\ NormId(a) = NormId(b)

\* C6: the output is a subsequence of the input, and every article dropped as a
\* duplicate comes after a returned article that it duplicates.
C6_SubsequenceFirstWins ==
    LET kept == KeptFlags(DedupStart, articles, saved_articles_ids)
    IN /\ IsSubsequence(unique_articles, articles)
       /\ \A k \in Positions(articles) :
             (/\ ~kept[k]
              /\ ~IsSaved(articles[k], saved_articles_ids)
              /\ HasTitleAndUrl(articles[k]))
                 => \E j \in 1..(k - 1) :
                       kept[j] /\ PairDuplicate(articles[j], articles[k])

\* the second article duplicates the first, the third duplicates only the
\* dropped second: the first and the third are returned, in that order
C6_Witness ==
    /\ Len(articles) = 3
    /\ unique_articles = <<articles[1], articles[3]>>
    /\ PairDuplicate(articles[1], articles[2])
    /\ PairDuplicate(articles[2], articles[3])
    /\ ~PairDuplicate(articles[1], articles[3])
    /\ articles[1].title # NormTitle(articles[1])

-----------------------------------------------------------------------------
(* Properties of handle_search, checked under SpecSearch *)

IdOf(a) == Get(a, "id", None)

\* the handler is past line 1248: unique_articles holds the deduplicated list
Deduplicated == pc \in {"rank", "sort", "respond"} \/ response.status = 200

\* the handler is past line 1256: every article carries its relevance_score
Scored == pc \in {"sort", "respond"} \/ response.status = 200

\* C3: no article whose id is in the saved-id set is in the list that
\* deduplicate_articles returns, nor in the articles handle_search returns.
C3_SavedNeverReturned ==
    /\ Deduplicated =>
          \A i \in Positions(unique_articles) :
              IdOf(unique_articles[i]) \notin saved_ids
    /\ response.status = 200 =>
          \A i \in Positions(response.articles) :
              IdOf(response.articles[i]) \notin saved_ids

\* two strategies both found a saved article, and the answer holds another one
C3_Witness ==
    /\ response.status = 200
    /\ Len(response.articles) >= 1
    /\ \E i, j \in Positions(all_found_articles) :
          /\ IdOf(all_found_articles[i]) \in saved_ids
          /\ IdOf(all_found_articles[i]) = IdOf(all_found_articles[j])
          /\ all_found_articles[i].search_strategy
                # all_found_articles[j].search_strategy

PositionIn(list, a) == CHOOSE k \in Positions(list) : list[k] = a

\* `after` holds the articles of `before` in non-increasing order of score,
\* those of equal score in the order they have in `before`
StableSorted(before, after) ==
    /\ Len(after) = Len(before)
    /\ \A i \in Positions(after) : \E k \in Positions(before) : before[k] = after[i]
    /\ \A i, j \in Positions(after) :
          i < j =>
             /\ after[i].relevance_score >= after[j].relevance_score
             /\ after[i].relevance_score = after[j].relevance_score
                   => PositionIn(before, after[i]) < PositionIn(before, after[j])

\* C7: handle_search returns the deduplicated articles sorted in non-increasing
\* order of relevance_score, articles of equal score in the order of the
\* deduplicated list.
C7_SortedStable ==
    [][/\ pc = "sort" => StableSorted(unique_articles, unique_articles')
       /\ pc = "respond" => response'.articles = unique_articles]_vars

\* three articles were returned, the last two with equal scores, and the first
\* was found after the second
C7_Witness ==
    /\ response.status = 200
    /\ Len(response.articles) = 3
    /\ response.articles[1].relevance_score > response.articles[2].relevance_score
    /\ response.articles[2].relevance_score = response.articles[3].relevance_score
    /\ \E i, j \in Positions(all_found_articles) :
          /\ i < j
          /\ IdOf(all_found_articles[i]) = IdOf(response.articles[2])
          /\ IdOf(all_found_articles[j]) = IdOf(response.articles[1])

\* citations * max(0.5, 1.0 - 0.05 * (currentYear - year)), in twentieths
ClaimedScore(a) ==
    LET factor == 20 - (CurrentYear - a.year)
    IN a.citations * (IF factor > 10 THEN factor ELSE 10)

\* C8: every ranked article has relevance_score = citations * max(0.5, 1.0 -
\* 0.05 * (currentYear - year)); of two articles with equal citations and years
\* not after the current year the more recent never scores lower; an article 10
\* or more years old scores half its citation count.
C8_ScoreFormula ==
    Scored =>
       /\ \A i \in Positions(unique_articles) :
             LET a == unique_articles[i]
             IN /\ a.relevance_score = ClaimedScore(a)
                /\ CurrentYear - a.year >= 10
                      => 2 * a.relevance_score = 20 * a.citations
       /\ \A i, j \in Positions(unique_articles) :
             LET a == unique_articles[i]
                 b == unique_articles[j]
             IN (/\ a.citations = b.citations
                 /\ a.year <= CurrentYear
                 /\ b.year <= CurrentYear
                 /\ a.year >= b.year)
                    => a.relevance_score >= b.relevance_score

\* the answer holds an article at least 10 years old and a more recent one with
\* the same, non-zero citation count and a higher score
C8_Witness ==
    /\ response.status = 200
    /\ \E i, j \in Positions(response.articles) :
          LET a == response.articles[i]
              b == response.articles[j]
          IN /\ CurrentYear - b.year >= 10
             /\ a.year > b.year
             /\ a.year <= CurrentYear
             /\ a.citations = b.citations
             /\ b.citations > 0
             /\ a.relevance_score > b.relevance_score

\* C9: the recency factor is within [0.5, 1.0] for every year, a year after
\* the current one included, so relevance_score never exceeds the citation
\* count.
C9_RecencyFactorClamped ==
    Scored =>
       \A i \in Positions(unique_articles) :
           LET a == unique_articles[i]
           IN /\ RecencyFactor(CurrentYear - a.year) \in 10..20
              /\ a.relevance_score <= 20 * a.citations

-----------------------------------------------------------------------------
(* Properties of the provider adapters, checked under SpecAdapter *)

Failed(k) == exchanges[k].outcome \in FailedOutcomes

\* C10 as stated: no adapter raises, and a call in which a request timed out,
\* was answered with a non-2xx status or a rate limit, or with a malformed
\* payload, returns an empty list.
C10_AnyFailureReturnsEmpty ==
    /\ adapter_result.status # "raised"
    /\ (adapter_pc = "done" /\ \E k \in Positions(exchanges) : Failed(k))
          => adapter_result = Returned(<<>>)

\* C10 amended: no adapter raises; a call returns an empty list when the last
\* request it made failed, and, for every adapter but search_web_of_science,
\* when any request it made failed.
C10_NeverRaises ==
    /\ adapter_result.status # "raised"
    /\ adapter_pc = "done" => adapter_result.status = "returned"
    /\ (adapter_pc = "done" /\ exchanges # <<>> /\ Failed(Len(exchanges)))
          => adapter_result = Returned(<<>>)
    /\ (/\ adapter_pc = "done"
        /\ adapter # "web_of_science"
        /\ \E k \in Positions(exchanges) : Failed(k))
          => adapter_result = Returned(<<>>)

\* a call of an adapter with a single request ended on a failed request
C10_Witness ==
    /\ adapter_pc = "done"
    /\ RequestCount(adapter) = 1
    /\ Len(exchanges) = 1
    /\ Failed(1)
    /\ adapter_result = Returned(<<>>)

\* C11: search_web_of_science and search_core, called while the API key they
\* need is not set, return an empty list at once and make no request.
C11_NoKeyNoRequest ==
    (adapter \in {"web_of_science", "core"} /\ ~api_key) =>
        /\ adapter_pc = "done"
        /\ adapter_result = Returned(<<>>)
        /\ exchanges = <<>>

\* search_core was called without its key and has returned
C11_Witness ==
    /\ adapter = "core"
    /\ ~api_key
    /\ adapter_pc = "done"
    /\ adapter_result = Returned(<<>>)

\* the failures after which search_web_of_science goes on to the next endpoint
Retryable == {"429", "500", "512", "timeout"}

\* C12: search_web_of_science requests its endpoints in the listed order, each
\* at most once; a 401 is the last request of the call, which returns an
\* empty list; after a 429, a 5xx or a timeout the next request, if there is
\* an endpoint left, goes to the next endpoint.
C12_EndpointsInOrderOnce ==
    adapter = "web_of_science" =>
        /\ Len(exchanges) <= 3
        /\ \A k \in Positions(exchanges) :
              /\ exchanges[k].endpoint = k
              /\ exchanges[k].outcome = "401" =>
                    /\ k = Len(exchanges)
                    /\ adapter_pc = "done"
                    /\ adapter_result = Returned(<<>>)
              /\ (exchanges[k].outcome \in Retryable /\ k < 3) =>
                    \/ k < Len(exchanges)
                    \/ adapter_pc = "request" /\ endpoint = k + 1

\* a rate limit on the first endpoint, then a 401 on the second, which ended
\* the call
C12_Witness ==
    /\ adapter = "web_of_science"
    /\ adapter_pc = "done"
    /\ Len(exchanges) = 2
    /\ exchanges[1].outcome = "429"
    /\ exchanges[2].outcome = "401"

\* C13: every article an adapter returns, whatever the provider and the
\* response, has a year that is at least min_year.
C13_YearAtLeastMinYear ==
    \A i \in Positions(adapter_result.articles) :
        adapter_result.articles[i].year >= min_year

\* the count the citation filter of an adapter compares with min_citations
GivenCitations(item) ==
    IF item.citations.kind = "int" THEN item.citations.value ELSE 0

YearMissing(a, item) ==
    /\ item.shape = "dict"
    /\ IF a \in {"openalex", "crossref"} THEN item.year.kind = "absent"
       ELSE IF a = "semantic_scholar" THEN item.year.kind \in {"absent", "null"}
       ELSE item.year.kind \in {"absent", "null", "text"}
    /\ a = "doaj" => item.month.kind = "absent"

ArticlesOfItem(i) ==
    {j \in Positions(adapter_result.articles) :
        adapter_result.articles[j].item = i}

-----------------------------------------------------------------------------
(* Properties of search_all_sources, checked under SpecFanout *)

\* C15: no article search_all_sources returns has a citation count that is
\* neither zero nor at least min_citations.
C15_CitationsFiltered ==
    (fan_pc = "done" /\ fan_result.status = "returned") =>
        \A i \in Positions(fan_result.articles) :
            \/ fan_result.articles[i].citations = 0
            \/ fan_result.articles[i].citations >= TaskMinCitations

\* the articles of the tasks that returned a list, in the order in which the
\* first k futures were collected
RECURSIVE ArticlesOfCollected(_)
ArticlesOfCollected(k) ==
    IF k = 0 THEN <<>>
    ELSE LET result == future_to_source[collected[k]].result
         IN ArticlesOfCollected(k - 1)
               \o (IF result.status = "returned" THEN result.articles ELSE <<>>)

\* C16: whichever tasks fail and succeed, search_all_sources raises nothing
\* and returns the articles of every task that succeeded, and nothing else.
C16_FailuresContributeNothing ==
    fan_pc = "done" =>
        /\ fan_result.status = "returned"
        /\ Uncollected = {}
        /\ fan_result.articles = ArticlesOfCollected(Len(collected))

\* C17: when the deadline of the fan-out expired with tasks pending,
\* search_all_sources returns the articles collected until then and raises
\* nothing.
C17_DeadlineReturnsCollected ==
    (fan_pc = "done" /\ timed_out) => fan_result = Returned(all_articles)

-----------------------------------------------------------------------------
(* Properties of the strategies of handle_search, checked under SpecSearch *)

\* C18: when the credential is missing, the AI service fails, or its response
\* cannot be parsed or is not a list, get_ai_search_strategies returns one
\* strategy: the research question as the query, with the placeholder
\* rationale and topic.
C18_FallbackIsOneStrategy ==
    ai_call \in {"no_key", "error", "unparsable", "not_list"} =>
        /\ Len(strategies) = 1
        /\ strategies[1].query = query_text
        /\ strategies[1].rationale \in {<<"d">>, <<"f">>}
        /\ strategies[1].topic = <<"D">>

\* the response of the AI could not be parsed and the loop runs on the
\* fallback strategy
C18_Witness ==
    /\ ai_call = "unparsable"
    /\ pc = "loop"
    /\ Len(strategies) = 1
    /\ strategies[1].query = <<"q">>

\* C19: whatever the AI answers, get_ai_search_strategies returns at least one
\* strategy, and a search that is answered ran at least one fan-out.
C19_NeverZeroStrategies ==
    ai_call # "none" =>
        /\ Len(strategies) >= 1
        /\ response.status = 200 => fanouts # <<>>

NonBlank(strategy) == Strip(Get(strategy, "query", <<>>)) # <<>>

\* what the fan-outs so far add to the merged list when every article gets
\* the rationale and the topic of the strategy of its fan-out
RECURSIVE MergedFanouts(_)
MergedFanouts(k) ==
    IF k = 0 THEN <<>>
    ELSE LET found == fanouts[k].found
             strategy == strategies[fanouts[k].index]
         IN MergedFanouts(k - 1)
               \o [i \in 1..Len(found) |->
                      [topic |-> strategy.rationale,
                       search_strategy |-> strategy.topic] @@ found[i]]

LoopFinished == pc \in {"rank", "sort", "respond"} \/ response.status = 200

\* C20: the fan-outs run in the order of the strategies, at most one per
\* strategy and each with the query of its strategy; once the loop is over
\* every strategy with a non-blank query had its fan-out; and the merged list
\* is the results of the fan-outs in that order, each article with the
\* rationale and the topic of the strategy of its fan-out.
C20_OneFanoutPerStrategy ==
    /\ \A k \in Positions(fanouts) :
          /\ fanouts[k].index \in Positions(strategies)
          /\ NonBlank(strategies[fanouts[k].index])
          /\ fanouts[k].query = Strip(strategies[fanouts[k].index].query)
          /\ \A l \in Positions(fanouts) :
                k < l => fanouts[k].index < fanouts[l].index
    /\ LoopFinished =>
          \A s \in Positions(strategies) :
              NonBlank(strategies[s]) =>
                  \E k \in Positions(fanouts) : fanouts[k].index = s
    /\ all_found_articles = MergedFanouts(Len(fanouts))

\* a search with two strategies whose fan-outs both found articles was
\* answered
C20_Witness ==
    /\ response.status = 200
    /\ Len(fanouts) = 2
    /\ fanouts[1].found # <<>>
    /\ fanouts[2].found # <<>>

\* C21: an article an adapter built never has the id that another adapter
\* builds, whatever item the other adapter builds it from and even when the
\* two native identifiers are the same text.
C21_IdsDistinctAcrossProviders ==
    adapter_pc = "done" =>
        \A j \in Positions(adapter_result.articles) :
            \A b \in Adapters \ {adapter} :
                \A item \in ItemPool :
                    adapter_result.articles[j].id # ArticleId(b, item)

\* an adapter returned an article whose native identifier another adapter
\* finds on an item of its own
C21_Witness ==
    /\ adapter_pc = "done"
    /\ \E j \in Positions(adapter_result.articles) :
          \E b \in Adapters \ {adapter} :
              \E item \in ItemPool :
                  NativeId(adapter, items[adapter_result.articles[j].item])
                      = NativeId(b, item)

\* whether search_web_of_science keeps the item at position i of the parsed
\* response: a well-formed item not older than min_year and cited at least
\* min_citations times
WosKeeps(i) ==
    /\ items[i].shape = "dict"
    /\ (IF items[i].year.kind = "int" THEN items[i].year.value
        ELSE CurrentYear) >= min_year
    /\ (IF items[i].citations.kind = "int" THEN items[i].citations.value
        ELSE 0) >= min_citations

\* C26: in search_web_of_science an endpoint that answers 200 with a
\* recognised shape is the last one contacted, and the call returns the
\* items of that answer that pass the filters, in their order; a 200 with an
\* unrecognised shape moves on to the next endpoint; and a call that ended
\* without such an answer returns an empty list, and ended because a 401
\* stopped the loop or because every endpoint was tried.
C26_FirstRecognisedAnswerEnds ==
    (adapter = "web_of_science" /\ api_key) =>
        /\ \A k \in Positions(exchanges) :
              /\ exchanges[k].outcome = "ok" =>
                    /\ k = Len(exchanges)
                    /\ adapter_pc = "done"
                    /\ adapter_result.status = "returned"
                    /\ \A i \in Positions(items) :
                          WosKeeps(i) <=>
                             \E j \in Positions(adapter_result.articles) :
                                 adapter_result.articles[j].item = i
                    /\ \A j, l \in Positions(adapter_result.articles) :
                          j < l => adapter_result.articles[j].item
                                      < adapter_result.articles[l].item
              /\ exchanges[k].outcome = "401" => k = Len(exchanges)
              /\ (exchanges[k].outcome = "wrong_shape" /\ k < 3) =>
                    \/ k < Len(exchanges)
                    \/ adapter_pc = "request" /\ endpoint = k + 1
        /\ (/\ adapter_pc = "done"
            /\ \A k \in Positions(exchanges) : exchanges[k].outcome # "ok") =>
              /\ adapter_result = Returned(<<>>)
              /\ \/ Len(exchanges) = 3
                 \/ /\ exchanges # <<>>
                    /\ exchanges[Len(exchanges)].outcome = "401"

\* the first endpoint answered 200 with an unrecognised shape, the second
\* with a recognised one of which one item of two passed the filters
C26_Witness ==
    /\ adapter = "web_of_science"
    /\ adapter_pc = "done"
    /\ Len(exchanges) = 2
    /\ exchanges[1].outcome = "wrong_shape"
    /\ exchanges[2].outcome = "ok"
    /\ Len(items) = 2
    /\ Len(adapter_result.articles) = 1

\* C27: when search_all_sources has returned or raised, every task it
\* submitted has finished, also when the deadline of as_completed expired.
C27_EndsAfterEveryTask ==
    fan_pc = "done" => InState("finished") = Futures

\* the deadline expired while a task was running, and the call has ended
C27_Witness ==
    /\ fan_pc = "done"
    /\ timed_out
    /\ fan_result = Raised
    /\ Len(future_to_source) >= 2
    /\ Len(collected) < Len(future_to_source)

\* C22: at most 4 adapter tasks of a call run at the same time, however many
\* providers are selected, and a task starts only while fewer than 4 run, so
\* that the tasks beyond the fourth start only as running ones finish.
C22_AtMostFourRunning ==
    /\ [](Cardinality(InState("running")) <= 4)
    /\ [][\A f \in InState("queued") :
              future_to_source'[f].state = "running"
                  => Cardinality(InState("running")) < 4]_vars

\* four tasks of a call with five providers run and the fifth waits
C22_Witness ==
    /\ Len(future_to_source) = 5
    /\ Cardinality(InState("running")) = 4
    /\ Cardinality(InState("queued")) = 1

\* the names of the eight providers search_all_sources knows
KnownProviders ==
    {"semantic_scholar", "crossref", "web_of_science", "doaj", "arxiv",
     "openalex", "pubmed", "core"}

\* C25: a call of search_all_sources has one task for each entry of the
\* selection that names a known provider, in the order of the entries, and
\* none for any other name; a task never finishes twice, and when the call
\* has ended every task has finished once; a selection of unknown names only
\* has no task and returns an empty list.
C25_SelectedAdaptersOnce ==
    fan_pc # "idle" =>
        /\ [f \in Futures |-> future_to_source[f].source]
              = SelectSeq(selected_sources, LAMBDA s : s \in KnownProviders)
        /\ \A f \in Futures :
              Cardinality({k \in DOMAIN completion : completion[k] = f})
                  = IF future_to_source[f].state = "finished" THEN 1 ELSE 0
        /\ fan_pc = "done" => InState("finished") = Futures
        /\ (/\ fan_pc = "done"
            /\ \A k \in Positions(selected_sources) :
                  selected_sources[k] \notin KnownProviders) =>
              /\ Futures = {}
              /\ fan_result = Returned(<<>>)

\* a call that selected an unknown name and a known one has ended with one
\* task
C25_Witness ==
    /\ fan_pc = "done"
    /\ Len(selected_sources) = 2
    /\ selected_sources[1] \notin KnownProviders
    /\ selected_sources[2] \in KnownProviders
    /\ Len(future_to_source) = 1
    /\ fan_result.status = "returned"

\* the results of the tasks of a sequence of futures, one block after the
\* other; a task that raised has no block
RECURSIVE BlocksOf(_)
BlocksOf(order) ==
    IF order = <<>> THEN <<>>
    ELSE (IF future_to_source[Head(order)].result.status = "returned"
          THEN future_to_source[Head(order)].result.articles
          ELSE <<>>) \o BlocksOf(Tail(order))

\* the position of a finished future in the order of finishing
CompletionIndex(f) == CHOOSE k \in DOMAIN completion : completion[k] = f

\* the futures collected so far, in the order in which their tasks finished
CollectedByCompletion ==
    SelectSeq(completion, LAMBDA f : f \notin Uncollected)

\* C23 as stated: the merged list is the blocks of the collected tasks in the
\* order in which the tasks completed.
C23_BlocksInCompletionOrder ==
    all_articles = BlocksOf(CollectedByCompletion)

\* C23: the list is written only by the step of the aggregator that takes
\* one yielded task, which appends the articles of that task as one block in
\* the adapter's order, and never by a step of a task; the merged list is the
\* blocks of the tasks in the order as_completed yielded them, which is the
\* order of completion for the tasks that finished after as_completed was
\* called, preceded by the tasks that had finished before.
C23_BlocksInYieldOrder ==
    /\ [](all_articles = BlocksOf(collected))
    /\ [](\A k, l \in Positions(collected) :
             (k < l /\ collected[k] \notin snapshot) =>
                 /\ collected[l] \notin snapshot
                 /\ CompletionIndex(collected[k])
                       < CompletionIndex(collected[l]))
    /\ [][all_articles' # all_articles =>
             /\ future_to_source' = future_to_source
             /\ \E f \in Futures :
                   /\ collected' = Append(collected, f)
                   /\ future_to_source[f].result.status = "returned"
                   /\ all_articles' = all_articles
                         \o future_to_source[f].result.articles]_vars

\* two tasks found articles; the one was finished when as_completed was
\* called, the other finished afterwards, and both were collected
C23_Witness ==
    /\ Len(collected) = 2
    /\ collected[1] \in snapshot
    /\ collected[2] \notin snapshot
    /\ future_to_source[collected[1]].result.articles # <<>>
    /\ future_to_source[collected[2]].result.articles # <<>>
    /\ Len(all_articles) = 2

\* an article without its relevance_score
WithoutScore(a) == [f \in DOMAIN a \ {"relevance_score"} |-> a[f]]

WithoutScores(list) == [i \in 1..Len(list) |-> WithoutScore(list[i])]

Occurrences(list, a) == Cardinality({k \in Positions(list) : list[k] = a})

\* the two lists hold the same articles, each as often in the one as in the
\* other
IsPermutation(one, other) ==
    /\ Len(one) = Len(other)
    /\ \A k \in Positions(one) :
          Occurrences(one, one[k]) = Occurrences(other, one[k])

\* C24: once the found articles are deduplicated, the list of the handler,
\* and in the end the list of the answer, holds exactly the articles that
\* deduplicate_articles returns for the found articles, each as it was found
\* but for its relevance_score, in some order; so every found article is
\* either left out by deduplicate_articles or in the answer.
C24_RankingPermutesDeduplicated ==
    LET kept == deduplicate_articles(all_found_articles, saved_ids)
    IN /\ Deduplicated =>
             /\ IsPermutation(WithoutScores(unique_articles), kept)
             /\ \A i \in Positions(unique_articles) :
                   \E k \in Positions(all_found_articles) :
                       WithoutScore(unique_articles[i]) = all_found_articles[k]
       /\ response.status = 200 =>
             /\ IsPermutation(WithoutScores(response.articles), kept)
             /\ \A k \in Positions(all_found_articles) :
                   \/ \E i \in Positions(response.articles) :
                         WithoutScore(response.articles[i])
                             = all_found_articles[k]
                   \/ Occurrences(kept, all_found_articles[k])
                         < Occurrences(all_found_articles,
                                       all_found_articles[k])

\* three articles were found, deduplicate_articles left one out, and the
\* answer has the other two in the reverse of the order they were found in,
\* one of them with a score of zero
C24_Witness ==
    /\ response.status = 200
    /\ Len(all_found_articles) = 3
    /\ Len(response.articles) = 2
    /\ WithoutScore(response.articles[1])
          # deduplicate_articles(all_found_articles, saved_ids)[1]
    /\ response.articles[2].relevance_score = 0

\* C28: a task of a fan-out is unfinished only while the handler is inside
\* the call of search_all_sources that submitted it; so when the fan-out of
\* the next strategy starts, and when deduplication starts, every task of
\* the fan-outs before has finished, and it stays so through the ranking.
C28_FanoutsNeverOverlap ==
    /\ [](InState("finished") # Futures =>
              /\ pc = "loop"
              /\ fan_pc \in {"submitted", "collect", "exit"})
    /\ [][(\/ fan_pc = "idle" /\ fan_pc' = "submitted"
           \/ pc = "loop" /\ pc' = "rank") =>
              /\ fan_pc = "idle"
              /\ InState("finished") = Futures]_vars

\* a search with two fan-outs that both found articles was answered
C28_Witness ==
    /\ response.status = 200
    /\ Len(fanouts) = 2
    /\ fanouts[1].found # <<>>
    /\ fanouts[2].found # <<>>
    /\ Len(future_to_source) = 2

IdsOf(list) == {list[k] : k \in DOMAIN list}

NoRepeatedId(list) ==
    \A k, l \in DOMAIN list : list[k] = list[l] => k = l

\* C29: when two requests that ran at the same time are both answered, and
\* both had loaded the file, the file holds every article that either of
\* them reported as processed.
C29_NoLostUpdate ==
    (\A r \in Requesters : /\ handlers[r].pc = "done"
                           /\ handlers[r].loaded) =>
        \A r \in Requesters :
            handlers[r].status = "success" =>
                IdsOf(handlers[r].processed) \subseteq IdsOf(drive_file)

\* C30: handle_generate never appends an article whose id is in the saved
\* collection or was appended before in the same request, so that a
\* collection loaded without duplicate ids is written without them; and the
\* file is written only by a request that processed an article.
C30_NoDuplicateAppended ==
    \A r \in Requesters :
        handlers[r].route = "generate" =>
            /\ NoRepeatedId(handlers[r].saved_articles)
            /\ handlers[r].wrote =>
                  /\ handlers[r].processed # <<>>
                  /\ NoRepeatedId(drive_file)

====
